---- MODULE Spec2Model ----
(***************************************************************************)
(* create_tree_rule_filters of rulefit_feature_generator.py: the preorder  *)
(* traversal of a decision tree that materializes, for the nodes it        *)
(* visits, a named boolean rule over the rows of a DataFrame.              *)
(*                                                                         *)
(* The recursion of _traverse is an explicit stack of frames, Python lists *)
(* that are mutated in place (rule_path) live in a heap and are held by    *)
(* reference, a rule name is the sequence of its space-separated tokens.   *)
(***************************************************************************)
EXTENDS Integers, Sequences, FiniteSets, TLC

\* Bounds of the explored inputs.
MaxNodes == 4
MaxCols == 2
MaxRows == 1

VARIABLES
    tree,        \* the Tree argument: children_left, children_right, feature, threshold
    X_values,    \* the DataFrame argument: columns (names), data (one vector per column), nrows
    lists,       \* heap of the list objects that rule_path variables refer to
    stack,       \* the active calls of _traverse, innermost last
    rules_dict,  \* the dict, as the sequence of its [key, value] items in key order
    status,      \* "running", "returned" (line 134) or "error" (an exception left the call)
    visited,     \* history: the nodes _traverse was entered for, in order
    made         \* history: one [node, name, srs] per execution of line 51, in order

vars == <<tree, X_values, lists, stack, rules_dict, status, visited, made>>

-----------------------------------------------------------------------------
\* The inputs.

Directions == {"left", "right"}

\* Values feature[] and threshold[] carry at a leaf (sklearn stores -2 there).
LeafValues == {-2, -1}

\* Thresholds of split nodes and cell values of the DataFrame.
ThresholdSchemes == {"same", "alternate"}
SplitThreshold(ts, i) == IF ts = "same" THEN 1 ELSE 1 + (i % 2)

\* feature[] of the split nodes: one column for all, or columns in rotation.
FeatureSchemes == 0..MaxCols
SplitFeature(fs, i) == IF fs = MaxCols THEN 0 ELSE (i + fs) % MaxCols

\* Split features that reach below column 0.
NegFeatureSchemes == 0..1
NegSplitFeature(fs, i) == IF fs = 0 THEN -1 ELSE (i % (MaxCols + 1)) - 1

Letters == <<"a", "b", "c", "d", "e", "f">>

NameSchemes == {"plain", "rules"}
\* "rules": columns that carry the names of rules made by an earlier call.
ColumnName(ns, c) ==
    IF ns = "plain" \/ c = 1 THEN <<Letters[c]>>
    ELSE IF c % 2 = 0 THEN <<"a", "<=", "1.0", "&", "a">>
    ELSE <<"a", ">", "1.0", "&", "a">>

DataSeeds == 0..3
Pow2(k) == IF k = 0 THEN 1 ELSE IF k = 1 THEN 2 ELSE IF k = 2 THEN 4 ELSE 8
CellValue(seed, c, r) == 1 + (((seed + r) \div Pow2(c - 1)) % 2)

DataFrame(ncols, nrows, ns, seed) ==
    [columns |-> [c \in 1..ncols |-> ColumnName(ns, c)],
     data    |-> [c \in 1..ncols |-> [r \in 1..nrows |-> CellValue(seed, c, r)]],
     nrows   |-> nrows]

DataFrames ==
    {DataFrame(0, nrows, "plain", 0) : nrows \in 0..MaxRows}
    \cup {DataFrame(ncols, 0, ns, 0) : ncols \in 1..MaxCols, ns \in NameSchemes}
    \cup {DataFrame(ncols, nrows, ns, seed) :
            ncols \in 1..MaxCols, nrows \in 1..MaxRows, ns \in NameSchemes, seed \in DataSeeds}

\* A well-formed binary tree of n nodes: node i > 0 hangs on side[i] of
\* parent[i] < i, no two nodes on the same side of the same parent.
Shapes(n) ==
    {sh \in [parent : [1..(n-1) -> 0..(n-2)], side : [1..(n-1) -> Directions]] :
        /\ \A i \in 1..(n-1) : sh.parent[i] < i
        /\ \A i, j \in 1..(n-1) :
              (i # j /\ sh.parent[i] = sh.parent[j]) => sh.side[i] # sh.side[j]}

ChildOn(n, sh, i, d) ==
    IF \E j \in 1..(n-1) : sh.parent[j] = i /\ sh.side[j] = d
    THEN CHOOSE j \in 1..(n-1) : sh.parent[j] = i /\ sh.side[j] = d
    ELSE -1

MakeTree(n, sh, feat, thr, lv) ==
    LET leaf(i) == \A j \in 1..(n-1) : sh.parent[j] # i IN
    [children_left  |-> [i \in 0..(n-1) |-> ChildOn(n, sh, i, "left")],
     children_right |-> [i \in 0..(n-1) |-> ChildOn(n, sh, i, "right")],
     feature        |-> [i \in 0..(n-1) |-> IF leaf(i) THEN lv ELSE feat[i]],
     threshold      |-> [i \in 0..(n-1) |-> IF leaf(i) THEN lv ELSE thr[i]]]

Trees ==
    UNION {{MakeTree(n, sh, [i \in 0..(n-1) |-> SplitFeature(fs, i)],
                     [i \in 0..(n-1) |-> SplitThreshold(ts, i)], lv) :
              sh \in Shapes(n), fs \in FeatureSchemes, ts \in ThresholdSchemes,
              lv \in LeafValues} : n \in 1..MaxNodes}

NegTrees ==
    UNION {{MakeTree(n, sh, [i \in 0..(n-1) |-> NegSplitFeature(fs, i)],
                     [i \in 0..(n-1) |-> SplitThreshold(ts, i)], lv) :
              sh \in Shapes(n), fs \in NegFeatureSchemes, ts \in ThresholdSchemes,
              lv \in LeafValues} : n \in 1..MaxNodes}

-----------------------------------------------------------------------------
\* pandas / numpy / dict operations the code uses.

NCols(df) == Len(df.columns)

\* ndarray[list]: the elements at the listed node indices.
FancyIndex(arr, idx) == [i \in 1..Len(idx) |-> arr[idx[i]]]

\* DataFrame.iloc[:, list] raises IndexError when a position is outside
\* -ncols .. ncols-1.
ILocOutOfBounds(df, cols) ==
    \E i \in 1..Len(cols) : cols[i] >= NCols(df) \/ cols[i] < 0 - NCols(df)

\* DataFrame.iloc[:, list]: the listed columns, a negative position counting
\* from the last column.
ILocColumns(df, cols) ==
    LET pos(c) == IF c >= 0 THEN c + 1 ELSE NCols(df) + c + 1 IN
    [columns |-> [i \in 1..Len(cols) |-> df.columns[pos(cols[i])]],
     data    |-> [i \in 1..Len(cols) |-> df.data[pos(cols[i])]],
     nrows   |-> df.nrows]

\* f'{threshold_val}' of a float.
Repr(t) ==
    CASE t = 1 -> "1.0" [] t = 2 -> "2.0" [] t = 3 -> "3.0"
      [] t = -1 -> "-1.0" [] t = -2 -> "-2.0" [] OTHER -> "0.0"

HasKey(d, k) == \E i \in 1..Len(d) : d[i].key = k

\* d[k] = v: a new key goes last, an existing key keeps its place and takes v.
DictSet(d, k, v) ==
    IF HasKey(d, k)
    THEN [i \in 1..Len(d) |-> IF d[i].key = k THEN [key |-> k, value |-> v] ELSE d[i]]
    ELSE Append(d, [key |-> k, value |-> v])

-----------------------------------------------------------------------------
\* _create_rule_filter and _create_rule_filter_name.

\* Variant: a strict comparison on the left edge.
create_single_filter_strict(srs, threshold, direction) ==
    IF direction = "left" THEN [r \in 1..Len(srs) |-> srs[r] < threshold]
    ELSE [r \in 1..Len(srs) |-> srs[r] > threshold]

create_single_filter(srs, threshold, direction) ==
    IF direction = "left" THEN [r \in 1..Len(srs) |-> srs[r] <= threshold]
    ELSE [r \in 1..Len(srs) |-> srs[r] > threshold]

\* Neither branch of _create_single_filter / _create_single_filter_name is
\* taken for such a direction: the '&' with None, or the unbound operator
\* name, raises.
DirectionUnknown(direction_path) ==
    \E i \in 1..Len(direction_path) : direction_path[i] \notin Directions

RECURSIVE rule_filter_loop(_, _, _, _, _)
rule_filter_loop(X_rule_values, thresholds, direction_path, i, rule_filter_srs) ==
    IF i > Len(direction_path) THEN rule_filter_srs
    ELSE LET single_filter == create_single_filter(X_rule_values.data[i], thresholds[i],
                                                   direction_path[i])
         IN rule_filter_loop(X_rule_values, thresholds, direction_path, i + 1,
                [r \in 1..X_rule_values.nrows |-> rule_filter_srs[r] /\ single_filter[r]])

\* The scalar True the loop starts from is held as the all-true vector it
\* broadcasts to at the first '&'.
create_rule_filter(X_rule_values, thresholds, direction_path) ==
    rule_filter_loop(X_rule_values, thresholds, direction_path, 1,
                     [r \in 1..X_rule_values.nrows |-> TRUE])

\* Variant: the operator does not follow the direction.
create_single_filter_name_one_op(X_rule_values, thresholds, direction_path, i) ==
    X_rule_values.columns[i] \o <<"<=", Repr(thresholds[i])>>

create_single_filter_name(X_rule_values, thresholds, direction_path, i) ==
    LET col_name == X_rule_values.columns[i]
        threshold_val == thresholds[i]
        direction_path_op == IF direction_path[i] = "left" THEN "<=" ELSE ">"
    IN col_name \o <<direction_path_op, Repr(threshold_val)>>

\* Variant: the later conjunct first.
combine_filter_names_reversed(name_1, name_2) == name_2 \o <<"&">> \o name_1

combine_filter_names(name_1, name_2) == name_1 \o <<"&">> \o name_2

RECURSIVE reduce_names(_, _, _)
reduce_names(filter_names, i, acc) ==
    IF i > Len(filter_names) THEN acc
    ELSE reduce_names(filter_names, i + 1, combine_filter_names(acc, filter_names[i]))

create_rule_filter_name(X_rule_values, thresholds, direction_path) ==
    LET filter_names == [i \in 1..Len(direction_path) |->
            create_single_filter_name(X_rule_values, thresholds, direction_path, i)]
    IN reduce_names(filter_names, 2, filter_names[1])

-----------------------------------------------------------------------------
\* The calls.

Frame(node, rp, dp) == [parent_index |-> node, rule_path |-> rp, direction_path |-> dp,
                        pc |-> "enter"]

Top == stack[Len(stack)]
SetTopPc(pc) == [stack EXCEPT ![Len(stack)].pc = pc]

\* What the left (right) child is called with.
\* Variant: the left child is handed the caller's own list, not a copy.
rule_path_left_shared(f) == f.rule_path
rule_path_left(f) == Len(lists) + 1
direction_path_left(f) == f.direction_path \o <<"left">>
rule_path_right(f) == Len(lists) + 1
direction_path_right(f) == f.direction_path \o <<"right">>

\* Variant: the grandchildren of the root get no rule either.
MaterializeDeeper(rule_path) == Len(rule_path) > 3
\* Variant: only the root gets no rule ("if parent_index != 0").
MaterializeChildren(rule_path) == Len(rule_path) > 1
\* Line 39: the root and its children get no rule.
MaterializeHere(rule_path) == Len(rule_path) > 2

InitWith(trees) ==
    /\ tree \in trees
    /\ X_values \in DataFrames
    /\ lists = << <<>> >>
    /\ stack = <<Frame(0, 1, <<>>)>>
    /\ rules_dict = <<>>
    /\ status = "running"
    /\ visited = <<>>
    /\ made = <<>>

Init == InitWith(Trees)

\* Lines 27-51: append the node, and past two entries make its rule.
Enter ==
    /\ status = "running" /\ stack # <<>> /\ Top.pc = "enter"
    /\ LET f == Top
           rule_path == Append(lists[f.rule_path], f.parent_index)
           cols == FancyIndex(tree.feature, rule_path)
       IN /\ lists' = [lists EXCEPT ![f.rule_path] = rule_path]
          /\ visited' = Append(visited, f.parent_index)
          /\ IF MaterializeHere(rule_path)
             THEN IF ILocOutOfBounds(X_values, cols) \/ DirectionUnknown(f.direction_path)
                  THEN /\ status' = "error"
                       /\ stack' = <<>>
                       /\ UNCHANGED <<rules_dict, made>>
                  ELSE LET X_rule_values == ILocColumns(X_values, cols)
                           thresholds == FancyIndex(tree.threshold, rule_path)
                           rule_filter_srs ==
                               create_rule_filter(X_rule_values, thresholds, f.direction_path)
                           rule_filter_name ==
                               create_rule_filter_name(X_rule_values, thresholds,
                                                       f.direction_path)
                       IN /\ rules_dict' = DictSet(rules_dict, rule_filter_name, rule_filter_srs)
                          /\ made' = Append(made, [node |-> f.parent_index,
                                                   name |-> rule_filter_name,
                                                   srs |-> rule_filter_srs])
                          /\ stack' = SetTopPc("left")
                          /\ UNCHANGED status
             ELSE /\ stack' = SetTopPc("left")
                  /\ UNCHANGED <<rules_dict, made, status>>
    /\ UNCHANGED <<tree, X_values>>

\* Lines 57-61.
DescendLeft ==
    /\ status = "running" /\ stack # <<>> /\ Top.pc = "left"
    /\ LET f == Top
           left_child_index == tree.children_left[f.parent_index]
       IN IF left_child_index >= 0
          THEN /\ lists' = Append(lists, lists[f.rule_path])
               /\ stack' = Append(SetTopPc("right"),
                                  Frame(left_child_index, rule_path_left(f),
                                        direction_path_left(f)))
          ELSE /\ stack' = SetTopPc("right")
               /\ UNCHANGED lists
    /\ UNCHANGED <<tree, X_values, rules_dict, status, visited, made>>

\* Lines 63-67.
DescendRight ==
    /\ status = "running" /\ stack # <<>> /\ Top.pc = "right"
    /\ LET f == Top
           right_child_index == tree.children_right[f.parent_index]
       IN IF right_child_index >= 0
          THEN /\ lists' = Append(lists, lists[f.rule_path])
               /\ stack' = Append(SetTopPc("return"),
                                  Frame(right_child_index, rule_path_right(f),
                                        direction_path_right(f)))
          ELSE /\ stack' = SetTopPc("return")
               /\ UNCHANGED lists
    /\ UNCHANGED <<tree, X_values, rules_dict, status, visited, made>>

\* The end of _traverse's body: back to the caller.
Return ==
    /\ status = "running" /\ stack # <<>> /\ Top.pc = "return"
    /\ stack' = SubSeq(stack, 1, Len(stack) - 1)
    /\ UNCHANGED <<tree, X_values, lists, rules_dict, status, visited, made>>

\* Line 134.
Finish ==
    /\ status = "running" /\ stack = <<>>
    /\ status' = "returned"
    /\ UNCHANGED <<tree, X_values, lists, stack, rules_dict, visited, made>>

Next == Enter \/ DescendLeft \/ DescendRight \/ Return \/ Finish

Spec == Init /\ [][Next]_vars

\* The same call on trees whose split features reach below column 0.
InitNeg == InitWith(NegTrees)
SpecNeg == InitNeg /\ [][Next]_vars

-----------------------------------------------------------------------------
\* The tree as its arrays describe it, independently of the traversal.

Nodes == DOMAIN tree.children_left
IsLeaf(v) == tree.children_left[v] < 0 /\ tree.children_right[v] < 0
ParentOf(v) == CHOOSE p \in Nodes : tree.children_left[p] = v \/ tree.children_right[p] = v
EdgeTo(v) == IF tree.children_left[ParentOf(v)] = v THEN "left" ELSE "right"

RECURSIVE AncestorChain(_)
AncestorChain(v) == IF v = 0 THEN <<0>> ELSE Append(AncestorChain(ParentOf(v)), v)

RECURSIVE EdgeChain(_)
EdgeChain(v) == IF v = 0 THEN <<>> ELSE Append(EdgeChain(ParentOf(v)), EdgeTo(v))

RECURSIVE Preorder(_)
Preorder(v) ==
    <<v>> \o (IF tree.children_left[v] >= 0 THEN Preorder(tree.children_left[v]) ELSE <<>>)
          \o (IF tree.children_right[v] >= 0 THEN Preorder(tree.children_right[v]) ELSE <<>>)

\* Number of edges between the root and v.
Depth(v) == Len(EdgeChain(v))

\* Every split node tests a column the DataFrame has.
WellFormedInput == \A v \in Nodes : ~IsLeaf(v) => tree.feature[v] \in 0..(NCols(X_values) - 1)

Insertions(v) == Cardinality({i \in 1..Len(made) : made[i].node = v})
Entered(v) == \E i \in 1..Len(visited) : visited[i] = v
\* The node whose visit an exception ended.
Failed(v) == status = "error" /\ visited[Len(visited)] = v

IsDeep(v) == Depth(v) >= 2
Deep(seq) == SelectSeq(seq, IsDeep)
Keys(d) == [i \in 1..Len(d) |-> d[i].key]

\* The i-th conjunct of the rule of node v, from the ancestor chain.
Conjunct(v, i) ==
    LET a == AncestorChain(v)[i] IN
    X_values.columns[tree.feature[a] + 1]
        \o <<IF EdgeChain(v)[i] = "left" THEN "<=" ELSE ">", Repr(tree.threshold[a])>>

RECURSIVE JoinedConjuncts(_, _)
JoinedConjuncts(v, k) ==
    IF k = 1 THEN Conjunct(v, 1)
    ELSE JoinedConjuncts(v, k - 1) \o <<"&">> \o Conjunct(v, k)

RowSatisfies(v, r) ==
    \A i \in 1..Depth(v) :
        LET a == AncestorChain(v)[i]
            x == X_values.data[tree.feature[a] + 1][r]
        IN IF EdgeChain(v)[i] = "left" THEN x <= tree.threshold[a] ELSE x > tree.threshold[a]

-----------------------------------------------------------------------------
\* C1 as stated: a returned call has made one insertion for every non-leaf
\* node whose path has more than 2 entries and none for any other node, so
\* a tree without such a node returns an empty dict.
C1_Original ==
    status = "returned" =>
        /\ \A v \in Nodes : Insertions(v) = IF ~IsLeaf(v) /\ Depth(v) >= 2 THEN 1 ELSE 0
        /\ (\A v \in Nodes : ~(~IsLeaf(v) /\ Depth(v) >= 2)) => rules_dict = <<>>

\* C1 amended: at any moment exactly one insertion has been made for every
\* node entered so far whose path has more than 2 entries, leaf or not
\* (except a node whose visit an exception ended), and none for any other
\* node.
C1_InsertionPerDeepNode ==
    \A v \in Nodes :
        Insertions(v) = IF Entered(v) /\ Depth(v) >= 2 /\ ~Failed(v) THEN 1 ELSE 0

C1_Witness ==
    /\ status = "returned"
    /\ \E i, j \in 1..Len(made) : IsLeaf(made[i].node) /\ ~IsLeaf(made[j].node)
    /\ \E v \in Nodes : Depth(v) = 1 /\ ~IsLeaf(v)

\* C2: every vector made for a node has one entry per row, the entry of row
\* r being the AND over the node's ancestors of (column <= threshold) on a
\* left edge and (column > threshold) on a right edge, and every item of
\* the dict holds the vector last made under its key.
C2_VectorIsConjunction ==
    /\ \A i \in 1..Len(made) :
          /\ Len(made[i].srs) = X_values.nrows
          /\ \A r \in 1..X_values.nrows : made[i].srs[r] = RowSatisfies(made[i].node, r)
    /\ \A k \in 1..Len(rules_dict) :
          /\ Len(rules_dict[k].value) = X_values.nrows
          /\ \E i \in 1..Len(made) :
                /\ made[i].name = rules_dict[k].key
                /\ made[i].srs = rules_dict[k].value
                /\ \A j \in (i+1)..Len(made) : made[j].name # made[i].name

C2_Witness ==
    /\ status = "returned"
    /\ \E k \in 1..Len(rules_dict) : \E r \in 1..X_values.nrows : rules_dict[k].value[r]
    /\ \E k \in 1..Len(rules_dict) : \E r \in 1..X_values.nrows : ~rules_dict[k].value[r]
    /\ \E i \in 1..Len(made) : {"left", "right"} \subseteq
          {EdgeChain(made[i].node)[e] : e \in 1..Depth(made[i].node)}

\* C3: the name made for a node is its Depth conjuncts, one per ancestor and
\* none for the node itself, "<column of feature[ancestor]> <op> <threshold
\* of ancestor>" with "<=" on a left edge and ">" on a right edge, joined by
\* "&" with the root's conjunct first.
C3_NameIsConjunctsInPathOrder ==
    \A i \in 1..Len(made) : made[i].name = JoinedConjuncts(made[i].node, Depth(made[i].node))

C3_Witness ==
    \E i \in 1..Len(made) :
        /\ Depth(made[i].node) >= 3
        /\ {"left", "right"} \subseteq
              {EdgeChain(made[i].node)[e] : e \in 1..Depth(made[i].node)}
        /\ \E a, b \in 1..Depth(made[i].node) :
              tree.feature[AncestorChain(made[i].node)[a]]
                  # tree.feature[AncestorChain(made[i].node)[b]]

\* C4: in every active call of _traverse, once the node is appended,
\* rule_path is the ancestor chain root..node and direction_path the edges
\* along it, one fewer; before the append rule_path is the chain of the
\* parent.
C4_PathsAreAncestorChains ==
    \A k \in 1..Len(stack) :
        LET f == stack[k]
            chain == AncestorChain(f.parent_index)
        IN /\ f.direction_path = EdgeChain(f.parent_index)
           /\ lists[f.rule_path] =
                 IF f.pc = "enter" THEN SubSeq(chain, 1, Len(chain) - 1) ELSE chain
           /\ f.pc # "enter" => Len(f.direction_path) = Len(lists[f.rule_path]) - 1

C4_Witness ==
    \E k \in 2..Len(stack) :
        LET f == stack[k]
            p == stack[k - 1].parent_index
        IN /\ f.pc = "left"
           /\ tree.children_right[p] = f.parent_index
           /\ tree.children_left[p] >= 0
           /\ ~IsLeaf(tree.children_left[p])

\* C5 as stated: on a well-formed tree and DataFrame the call ends by
\* returning, having entered every node once in preorder, with the keys of
\* the dict in the preorder of the nodes the rules were made at.
C5_Original ==
    (WellFormedInput /\ status # "running") =>
        /\ status = "returned"
        /\ visited = Preorder(0)
        /\ Keys(rules_dict) = [i \in 1..Len(made) |-> made[i].name]
        /\ [i \in 1..Len(made) |-> made[i].node] = Deep(Preorder(0))

\* The part of C5 that holds: what a call that returns has done.
C5_OnReturn ==
    status = "returned" =>
        /\ visited = Preorder(0)
        /\ Keys(rules_dict) = [i \in 1..Len(made) |-> made[i].name]
        /\ [i \in 1..Len(made) |-> made[i].node] = Deep(Preorder(0))

\* C6 as stated: when the root is a leaf, or the DataFrame has no column or
\* no row, the call raises nothing and returns an empty dict.
C6_Original ==
    (IsLeaf(0) \/ NCols(X_values) = 0 \/ X_values.nrows = 0) =>
        /\ status # "error"
        /\ status = "returned" => rules_dict = <<>>

\* C6 amended: when no node lies 2 or more edges below the root (so when
\* the root is a leaf) the call raises nothing and its dict stays empty,
\* whatever the DataFrame; with such a node a call that returns has a
\* non-empty dict, of zero-length vectors when there is no row, and a call
\* on a DataFrame without columns does not return.
C6_EmptyOnlyForShallowTrees ==
    /\ (\A v \in Nodes : Depth(v) < 2) => (status # "error" /\ rules_dict = <<>>)
    /\ (status = "returned" /\ \E v \in Nodes : Depth(v) >= 2) =>
          /\ rules_dict # <<>>
          /\ NCols(X_values) > 0
          /\ X_values.nrows = 0 => \A k \in 1..Len(rules_dict) : rules_dict[k].value = <<>>

C6_Witness ==
    /\ status = "returned"
    /\ ~IsLeaf(0)
    /\ \A v \in Nodes : Depth(v) < 2
    /\ NCols(X_values) = 0
    /\ rules_dict = <<>>

\* C7 as stated: on a well-formed tree and a DataFrame that has the column
\* of every split node, no error is raised.
C7_Original == WellFormedInput => status # "error"

\* C8 as stated: no rule is inserted for a path one of whose split nodes
\* has a feature outside 0 .. ncols-1.
C8_Original ==
    \A i \in 1..Len(made) :
        \A e \in 1..Depth(made[i].node) :
            tree.feature[AncestorChain(made[i].node)[e]] \in 0..(NCols(X_values) - 1)

\* C10: the rules made at two distinct nodes never have the same name, so
\* the dict has as many items as rules were made.
C10_NamesAreDistinct ==
    /\ \A i, j \in 1..Len(made) : i # j => made[i].name # made[j].name
    /\ Len(rules_dict) = Len(made)

C10_Witness ==
    /\ status = "returned"
    /\ \E i, j \in 1..Len(made) :
          /\ i # j
          /\ ParentOf(made[i].node) = ParentOf(made[j].node)
          /\ tree.feature[ParentOf(ParentOf(made[i].node))]
                # tree.feature[ParentOf(made[i].node)]

====
